---- MODULE Spec2Model ----
(***************************************************************************)
(* Model of github_release_monitor.py: the release-tracking core           *)
(* (GitHubReleaseAgent), the enrich/notify pipeline and the loop of        *)
(* ReleaseMonitorOrchestrator.start_monitoring.                            *)
(*                                                                         *)
(* The collaborators (GitHub API, the LLM client, the Gmail MCP tool, the  *)
(* file system) are the environment: each call's outcome is chosen with \E *)
(* among the outcomes the call can have.                                   *)
(***************************************************************************)
EXTENDS Integers, Sequences, FiniteSets, TLC

\* ---------------------------------------------------------------- bounds
\* Release identifiers the Release Source can hand out for the repository
\* "ra": 1..MaxId; the repository "rb" has the one release 1.
MaxId == 2
\* Longest configured repository list (--repos).
MaxConfig == 2

Repos == {"ra", "rb"}
Ids(r) == IF r = "ra" THEN 1..MaxId ELSE {1}
Pairs == {p \in Repos \X (1..MaxId \cup {1}) : p[2] \in Ids(p[1])}

VARIABLES
    repositories,      \* ReleaseMonitorOrchestrator.repositories (configured list)
    history,           \* GitHubReleaseAgent.history.repositories (in memory)
    file,              \* the history file on disk
    status,            \* "running" | "stopped" | "crashed"
    pc,                \* position of start_monitoring
    idx,               \* position of the loop of check_all_repositories (1-based)
    all_new_releases,  \* all_new_releases / new_releases / init_releases of the current cycle
    k,                 \* position of the loop over new_releases (1-based)
    \* ---- history variables (observe the run, never read by the program)
    last,              \* the most recent call of check_for_new_releases
    init_releases,     \* what initialize() got from check_all_repositories
    preexisting,       \* repository -> ids the source holds while Initializing runs,
                       \* where the run observes it (ColdSpec); else the empty function
    attempts,          \* (repo, id) -> number of send_notification calls of this process
    notified,          \* what the most recent send_notification of the cycle returned
    cycle              \* of the running cycle: how many releases were appended to the
                       \* store, and the analyze_release / send_notification calls made

vars == <<repositories, history, file, status, pc, idx, all_new_releases, k,
          last, init_releases, preexisting, attempts, notified, cycle>>

hist == <<last, init_releases, preexisting, attempts, notified>>

\* ------------------------------------------------------------ data model
\* A raw release record of the GitHub API.  The display name is optional:
\* "" stands for a null / empty name.
RawRelease(i) == [id |-> i, tag_name |-> "v", name |-> ""]

\* Release(id=..., tag_name=..., name=release_data['name'] or release_data['tag_name'], ...)
Release(release_data) ==
    [id       |-> release_data.id,
     tag_name |-> release_data.tag_name,
     name     |-> IF release_data.name = "" THEN release_data.tag_name
                  ELSE release_data.name]

\* RepoConfig(owner=owner, repo=repo): latest_check None, no releases.
\* latest_check is kept relative to the clock: "None", "current" (written in
\* the running cycle) or "stale" (written before the last sleep).
RepoConfig(r) == [owner_repo |-> r, latest_check |-> "None", releases |-> <<>>]

\* ReleaseHistory(): no repositories.
ReleaseHistory == <<>>

\* The sleep of check_interval seconds passes: every timestamp written so far
\* is now in the past.
Age(h) ==
    [j \in 1..Len(h) |->
        [h[j] EXCEPT !.latest_check = IF @ = "None" THEN "None" ELSE "stale"]]

\* Lists without repeated elements over a set, every length.
RECURSIVE UniqueSeqs(_)
UniqueSeqs(S) ==
    IF S = {} THEN {<<>>}
    ELSE {<<>>} \cup UNION {{<<x>> \o s : s \in UniqueSeqs(S \ {x})} : x \in S}

\* What a successful call of the releases endpoint can return: release ids
\* are unique within a repository.
FetchLists(S) == {[j \in 1..Len(s) |-> RawRelease(s[j])] : s \in UniqueSeqs(S)}

IdsOf(rels) == {rels[j].id : j \in 1..Len(rels)}

\* ------------------------------------------------------------ State Store
\* The file on disk: [status, data].  status is "missing", "ok" (data is the
\* store json.dump wrote), "corrupt" (not valid JSON, e.g. a truncated
\* write: nothing parses) or "mismatch" (valid JSON that ReleaseHistory(**data)
\* rejects; data is what json.load returns).
\* What reading the file raises inside the try of _load_history.
LoadError(f) ==
    CASE f.status = "corrupt"  -> "JSONDecodeError"
      [] f.status = "mismatch" -> "ValidationError"
      [] OTHER                 -> "none"

\* A slip: the handler names the decoder's exception only.
Caught_json(e) == e = "JSONDecodeError"

\* except Exception as e: every exception of the try is handled.
Caught(e) == TRUE

\* _load_history lets an exception out to the constructor.
_load_history_raises(f) ==
    /\ f.status # "missing"
    /\ LoadError(f) # "none"
    /\ ~Caught(LoadError(f))

\* _load_history: missing file -> empty; unreadable content -> empty.
_load_history(f) ==
    IF f.status = "ok" THEN f.data ELSE ReleaseHistory

\* _save_history: open(path, 'w') truncates, json.dump writes.  Outcomes:
\*   "ok"         the file holds the whole store
\*   "fail_open"  open/makedirs raised: the file is as before
\*   "fail_write" the write raised after the truncation: partial content
SaveOutcomes == {"ok", "fail_open", "fail_write"}

\* A slip: only the first repository of the store is dumped.
_save_history_first(f, h, outcome) ==
    [status |-> "ok", data |-> IF h = <<>> THEN h ELSE <<h[1]>>]

\* A slip: a history file that exists is not written again.
_save_history_once(f, h, outcome) ==
    IF f.status = "ok" THEN f ELSE [status |-> "ok", data |-> h]

_save_history(f, h, outcome) ==
    CASE outcome = "ok"         -> [status |-> "ok", data |-> h]
      [] outcome = "fail_open"  -> f
      [] outcome = "fail_write" -> [status |-> "corrupt", data |-> <<>>]

\* --------------------------------------------------------- Repository Tracker
\* A slip: the lookup never finds the key.
_get_repo_index_absent(h, r) == -1

\* _get_repo_index: 0-based index of the first entry with the key, -1 if none.
_get_repo_index(h, r) ==
    IF \E j \in 1..Len(h) : h[j].owner_repo = r
    THEN (CHOOSE j \in 1..Len(h) :
              /\ h[j].owner_repo = r
              /\ \A m \in 1..(j-1) : h[m].owner_repo # r) - 1
    ELSE -1

\* _ensure_repo_exists: the history afterwards and the index returned.
_ensure_repo_exists(h, r) ==
    LET index == _get_repo_index(h, r) IN
    IF index = -1
    THEN [history |-> Append(h, RepoConfig(r)), index |-> Len(h)]
    ELSE [history |-> h, index |-> index]

\* ------------------------------------------------------------ Change Detector
\* A slip: the ids of the known releases are never collected.
known_release_ids_empty(entry) == <<>>

\* known_release_ids = [release.id for release in ...releases]
known_release_ids(entry) == [j \in 1..Len(entry.releases) |-> entry.releases[j].id]

\* A slip: the comparison looks at the last known release only.
NotKnown_last(release_data, known) ==
    known = <<>> \/ known[Len(known)] # release_data.id

\* release_data['id'] not in known_release_ids
NotKnown(release_data, known) ==
    \A j \in 1..Len(known) : known[j] # release_data.id

\* A slip: the new releases are reported newest id first instead of in the
\* order of the response.
RECURSIVE SortedDesc(_)
SortedDesc(rels) ==
    IF rels = <<>> THEN <<>>
    ELSE LET m == CHOOSE j \in 1..Len(rels) :
                      \A n \in 1..Len(rels) : rels[n].id <= rels[j].id
         IN  <<rels[m]>> \o SortedDesc([n \in 1..(Len(rels) - 1) |->
                                           IF n < m THEN rels[n] ELSE rels[n + 1]])
NewReleases_sorted(releases_data, known) ==
    LET sel == SelectSeq(releases_data, LAMBDA rd : \A j \in 1..Len(known) : known[j] # rd.id)
    IN  SortedDesc([j \in 1..Len(sel) |-> Release(sel[j])])

\* The loop of check_for_new_releases: the releases it constructs, in order.
NewReleases(releases_data, known) ==
    LET sel == SelectSeq(releases_data, LAMBDA rd : NotKnown(rd, known))
    IN  [j \in 1..Len(sel) |-> Release(sel[j])]

\* A slip: the new releases are reported but not appended to the history.
RecordReleases_forget(old, new) == old

\* A slip: the releases of the entry are replaced by the new ones.
RecordReleases_overwrite(old, new) == IF new = <<>> THEN old ELSE new

\* self.history.repositories[repo_index].releases.append(release), for each.
RecordReleases(old, new) == old \o new

\* A slip: only the first new release is reported to the caller.
Tagged_first(r, rels) == IF rels = <<>> THEN <<>> ELSE <<<<r, rels[1]>>>>

\* new_releases.append((owner, repo, release))
Tagged(r, rels) == [j \in 1..Len(rels) |-> <<r, rels[j]>>]

\* A slip: the stored copy of a known release is refreshed from the fetch.
Detect_refresh(h, r, releases_data) ==
    LET e     == _ensure_repo_exists(h, r)
        pos   == e.index + 1
        h1    == [e.history EXCEPT ![pos].latest_check = "current"]
        known == known_release_ids(h1[pos])
        new   == NewReleases(releases_data, known)
        fresh(rel) ==
            IF \E j \in 1..Len(releases_data) : releases_data[j].id = rel.id
            THEN Release(releases_data[CHOOSE j \in 1..Len(releases_data) :
                                           releases_data[j].id = rel.id])
            ELSE rel
        kept  == [j \in 1..Len(h1[pos].releases) |-> fresh(h1[pos].releases[j])]
    IN  [history |-> [h1 EXCEPT ![pos].releases = RecordReleases(kept, new)],
         new     |-> Tagged(r, new)]

\* The part of check_for_new_releases after the fetch, for a non-empty
\* releases_data: the new history and the list returned.
Detect(h, r, releases_data) ==
    LET e     == _ensure_repo_exists(h, r)
        pos   == e.index + 1
        h1    == [e.history EXCEPT ![pos].latest_check = "current"]
        known == known_release_ids(h1[pos])
        new   == NewReleases(releases_data, known)
    IN  [history |-> [h1 EXCEPT ![pos].releases = RecordReleases(@, new)],
         new     |-> Tagged(r, new)]

\* -------------------------------------------------- reading lists and stores
PairOf(item) == <<item[1], item[2].id>>
PairsOf(items) == {PairOf(items[j]) : j \in 1..Len(items)}
IdSeq(rels) == [j \in 1..Len(rels) |-> rels[j].id]
ItemIdSeq(items) == [j \in 1..Len(items) |-> items[j][2].id]

\* The release sequence of repository r in a store (empty when untracked).
ReleasesIn(h, r) ==
    IF \E j \in 1..Len(h) : h[j].owner_repo = r
    THEN h[CHOOSE j \in 1..Len(h) : h[j].owner_repo = r].releases
    ELSE <<>>

\* -------------------------------------------------------------------- Init
NoCycle == [discovered |-> 0, calls |-> <<>>]

NoCall == [repo |-> "none", phase |-> "none", fetched |-> <<>>, failed |-> FALSE,
           new |-> <<>>]

Configs == {s \in UNION {[1..n -> Repos] : n \in 1..MaxConfig} : TRUE}

\* After the constructors: the history is what _load_history returns for the
\* file; the first run finds no file.
InitProgram ==
    /\ repositories \in Configs
    /\ file = [status |-> "missing", data |-> <<>>]
    /\ history = _load_history(file)
    /\ status = "running"
    /\ pc = "init_check"
    /\ idx = 1
    /\ all_new_releases = <<>>
    /\ k = 1
    /\ last = NoCall
    /\ init_releases = <<>>
    /\ attempts = [p \in Pairs |-> 0]
    /\ notified = "none"
    /\ cycle = NoCycle

\* The content of the source at start is not observed.
Init ==
    /\ InitProgram
    /\ preexisting = <<>>

\* The content of the source at start is fixed and observed.
ColdInit ==
    /\ InitProgram
    /\ preexisting \in {f \in [Repos -> SUBSET (1..MaxId)] : \A r \in Repos : f[r] \subseteq Ids(r)}

\* ------------------------------------------------------- earlier lifetimes
\* A store an earlier run of the program left behind.
PriorStore ==
    <<[owner_repo |-> "ra", latest_check |-> "stale",
       releases |-> <<Release(RawRelease(1))>>]>>

\* What the history file can be when the process starts.
PriorFiles ==
    {[status |-> "missing",  data |-> <<>>],
     [status |-> "corrupt",  data |-> <<>>],
     [status |-> "mismatch", data |-> PriorStore],
     [status |-> "ok",       data |-> PriorStore]}

\* One repository on the command line.
LoadConfigs == {s \in Configs : Len(s) = 1}

\* After the constructors, over any file: GitHubReleaseAgent.__init__ loads
\* the history; an exception out of it ends the process before initialize().
LoadInit ==
    /\ repositories \in LoadConfigs
    /\ file \in PriorFiles
    /\ history = _load_history(file)
    /\ status = IF _load_history_raises(file) THEN "crashed" ELSE "running"
    /\ pc = "init_check"
    /\ idx = 1
    /\ all_new_releases = <<>>
    /\ k = 1
    /\ last = NoCall
    /\ init_releases = <<>>
    /\ attempts = [p \in Pairs |-> 0]
    /\ notified = "none"
    /\ cycle = NoCycle
    /\ preexisting = <<>>

\* ------------------------------------------------------------ Release Source
\* Every list the releases endpoint of a repository can return.
AllResponses == [r \in Repos |-> FetchLists(Ids(r))]

\* The parsed response of a successful request.  While Initializing runs
\* it lists what the source holds then (any content where that is not
\* observed); afterwards releases may have been published or removed.
Responses(phase, r) ==
    IF phase = "init" /\ r \in DOMAIN preexisting
    THEN {d \in AllResponses[r] : IdsOf(d) = preexisting[r]}
    ELSE AllResponses[r]

\* Responses that list one release twice (a page boundary that moved, a
\* source that repeats itself): nothing in get_releases filters them.
DupLists(r) == {<<RawRelease(i), RawRelease(i)>> : i \in Ids(r)}

\* A release whose tag was changed at the source after it was published.
EditedRelease(i) == [RawRelease(i) EXCEPT !.tag_name = "w"]

\* Responses that list one release, in its edited form.
EditedLists(r) == {<<EditedRelease(i)>> : i \in Ids(r)}

\* get_releases: the parsed response, or [] when the request raised.
get_releases(failed, response) == IF failed THEN <<>> ELSE response

\* ------------------------------------------------- check_for_new_releases
\* The whole call for the data get_releases returned: `if not releases_data:
\* return []` leaves everything alone; otherwise diff, record and, when
\* something is new, save.  raised: _save_history let an exception out.
\* A slip: the call records the new releases and leaves the save to its caller.
check_for_new_releases_nosave(h, f, r, releases_data, so) ==
    IF releases_data = <<>>
    THEN [history |-> h, file |-> f, new |-> <<>>, raised |-> FALSE]
    ELSE LET d == Detect(h, r, releases_data) IN
         [history |-> d.history, file |-> f, new |-> d.new, raised |-> FALSE]

check_for_new_releases(h, f, r, releases_data, so) ==
    IF releases_data = <<>>
    THEN [history |-> h, file |-> f, new |-> <<>>, raised |-> FALSE]
    ELSE LET d == Detect(h, r, releases_data) IN
         IF d.new # <<>>
         THEN [history |-> d.history,
               file    |-> _save_history(f, d.history, so),
               new     |-> d.new,
               raised  |-> so # "ok"]
         ELSE [history |-> d.history, file |-> f, new |-> <<>>, raised |-> FALSE]

\* The outcomes of the _save_history of a call: none to choose when the call
\* does not reach line 175.
SavesOf(h, r, releases_data) ==
    IF releases_data # <<>> /\ Detect(h, r, releases_data).new # <<>>
    THEN SaveOutcomes ELSE {"ok"}

Phase == IF pc \in {"init_check", "init_save"} THEN "init" ELSE "poll"

\* One iteration of the loop of check_all_repositories, in initialize() and
\* in the while-loop of start_monitoring, where a successful request returns
\* one of `lists`; after the last repository the caller's `if init_releases`
\* / `if new_releases` is taken.
Check(lists) ==
    /\ status = "running"
    /\ pc \in {"init_check", "poll_check"}
    /\ LET r == repositories[idx] IN
       \E failed \in BOOLEAN :
       \E response \in (IF failed THEN {<<>>} ELSE lists) :
       \E so \in SavesOf(history, r, get_releases(failed, response)) :
         LET releases_data == get_releases(failed, response)
             c   == check_for_new_releases(history, file, r, releases_data, so)
             all == all_new_releases \o c.new
         IN  /\ history' = c.history
             /\ file' = c.file
             /\ last' = [repo |-> r, phase |-> Phase, fetched |-> releases_data,
                         failed |-> failed, new |-> c.new]
             /\ cycle' = [cycle EXCEPT !.discovered =
                              @ + Len(ReleasesIn(c.history, r)) - Len(ReleasesIn(history, r))]
             /\ IF c.raised
                THEN /\ status' = "crashed"
                     /\ UNCHANGED <<pc, idx, all_new_releases, k, init_releases>>
                ELSE /\ status' = status
                     /\ all_new_releases' = all
                     /\ IF idx < Len(repositories)
                        THEN /\ idx' = idx + 1
                             /\ UNCHANGED <<pc, k, init_releases>>
                        ELSE /\ idx' = idx
                             /\ k' = 1
                             /\ IF pc = "init_check"
                                THEN /\ pc' = "init_save"
                                     /\ init_releases' = all
                                ELSE /\ pc' = IF all # <<>> THEN "analyze" ELSE "sleeping"
                                     /\ UNCHANGED init_releases
    /\ UNCHANGED <<repositories, preexisting, attempts, notified>>

\* The iteration over a Release Source that keeps its contract.
CheckRepository == Check(Responses(Phase, repositories[idx]))

\* The iteration when the response lists one release twice.
CheckDuplicated == Check(DupLists(repositories[idx]))

\* The iteration when the response lists a release that was edited.
CheckEdited == Check(EditedLists(repositories[idx]))

\* initialize(), line 374: self.github_agent._save_history(), then the
\* while-loop of start_monitoring is entered.
InitializeSave ==
    /\ status = "running"
    /\ pc = "init_save"
    /\ \E so \in SaveOutcomes :
         /\ file' = _save_history(file, history, so)
         /\ IF so = "ok"
            THEN /\ pc' = "poll_check"
                 /\ idx' = 1
                 /\ all_new_releases' = <<>>
                 /\ cycle' = NoCycle
                 /\ UNCHANGED status
            ELSE /\ status' = "crashed"
                 /\ UNCHANGED <<pc, idx, all_new_releases, cycle>>
    /\ UNCHANGED <<repositories, history, k, hist>>

\* analyze_release for new_releases[k]: the model client's create() returns,
\* or raises (nothing in analyze_release or in the loop catches it).
AnalyzeOutcomes == {"ok", "raise"}
AnalyzeRelease ==
    /\ status = "running"
    /\ pc = "analyze"
    /\ \E o \in AnalyzeOutcomes :
         IF o = "ok"
         THEN pc' = "notify" /\ UNCHANGED status
         ELSE status' = "crashed" /\ UNCHANGED pc
    /\ cycle' = [cycle EXCEPT !.calls =
                     Append(@, <<"analyze_release", PairOf(all_new_releases[k])>>)]
    /\ UNCHANGED <<repositories, history, file, idx, all_new_releases, k, hist>>

\* send_notification: call_tool succeeds, reports is_error, or raises; the
\* last two return False.
NotifyOutcomes == {"sent", "is_error", "raise"}
send_notification(o) == o = "sent"

\* send_notification for new_releases[k]; the loop ignores what it returns
\* and goes on to the next release, or to the sleep.
SendNotification ==
    /\ status = "running"
    /\ pc = "notify"
    /\ LET item == all_new_releases[k]
           p    == <<item[1], item[2].id>> IN
       \E o \in NotifyOutcomes :
         /\ attempts' = [attempts EXCEPT ![p] = @ + 1]
         /\ cycle' = [cycle EXCEPT !.calls = Append(@, <<"send_notification", p>>)]
         /\ notified' = IF send_notification(o) THEN "True" ELSE "False"
    /\ k' = k + 1
    /\ pc' = IF k < Len(all_new_releases) THEN "analyze" ELSE "sleeping"
    /\ UNCHANGED <<repositories, history, file, status, idx, all_new_releases,
                   last, init_releases, preexisting>>

\* asyncio.sleep(check_interval) returns: the next iteration of `while True`.
Sleep ==
    /\ status = "running"
    /\ pc = "sleeping"
    /\ pc' = "poll_check"
    /\ idx' = 1
    /\ k' = 1
    /\ all_new_releases' = <<>>
    /\ notified' = "none"
    /\ cycle' = NoCycle
    /\ history' = Age(history)
    /\ file' = [file EXCEPT !.data = Age(@)]
    /\ UNCHANGED <<repositories, status, last, init_releases, preexisting, attempts>>

\* Cancellation: KeyboardInterrupt / shutdown request at a suspension point.
Stop ==
    /\ status = "running"
    /\ status' = "stopped"
    /\ UNCHANGED <<repositories, history, file, pc, idx, all_new_releases, k, hist, cycle>>

\* The process, ended by an exception or cancelled, is started again with the
\* same command line: the constructors run over the file as it was left.
Restart ==
    /\ status \in {"crashed", "stopped"}
    /\ history' = _load_history(file)
    /\ status' = IF _load_history_raises(file) THEN "crashed" ELSE "running"
    /\ pc' = "init_check"
    /\ idx' = 1
    /\ all_new_releases' = <<>>
    /\ k' = 1
    /\ last' = NoCall
    /\ init_releases' = <<>>
    /\ notified' = "none"
    /\ cycle' = NoCycle
    /\ attempts' = [p \in Pairs |-> 0]
    /\ UNCHANGED <<repositories, file, preexisting>>

\* The steps of the program itself.
Step ==
    \/ CheckRepository
    \/ InitializeSave
    \/ AnalyzeRelease
    \/ SendNotification
    \/ Sleep

Next ==
    \/ Step
    \/ Stop

Spec == Init /\ [][Next]_vars

\* The same program, with the content of the source at start observed.
ColdSpec == ColdInit /\ [][Next]_vars

\* Process lifetimes one after the other, the first over any file.
LoadNext ==
    \/ Next
    \/ Restart

LoadSpec == LoadInit /\ [][LoadNext]_vars

\* A Release Source that may also list a release twice in one response.
DupNext ==
    \/ Next
    \/ CheckDuplicated

DupSpec == Init /\ [][DupNext]_vars

\* One repository, at a Release Source where releases are edited.
EditInit ==
    /\ Init
    /\ repositories \in LoadConfigs

EditNext ==
    \/ Next
    \/ CheckEdited

EditSpec == EditInit /\ [][EditNext]_vars

\* The event loop runs the program's steps as long as one is possible.
FairSpec == Spec /\ WF_vars(Step)

TypeOK ==
    /\ status \in {"running", "stopped", "crashed"}
    /\ pc \in {"init_check", "init_save", "poll_check", "analyze", "notify", "sleeping"}
    /\ idx \in 1..Len(repositories)
    /\ file.status \in {"missing", "corrupt", "mismatch", "ok"}

\* ------------------------------------------------------------ observations
\* The known set of repository r: every id recorded under the key r.
KnownSet(h, r) ==
    UNION {IdsOf(h[j].releases) : j \in {n \in 1..Len(h) : h[n].owner_repo = r}}

\* A step that is a call of check_for_new_releases (CheckRepository is the
\* only step of the program at these positions, and it moves pc, idx or status).
CheckStep ==
    /\ status = "running"
    /\ pc \in {"init_check", "poll_check"}
    /\ status' # "stopped"
    /\ <<pc, idx, status>>' # <<pc, idx, status>>

\* The calls of one pipeline function made in the running cycle, in order.
Calls(function) == SelectSeq(cycle.calls, LAMBDA c : c[1] = function)

\* The releases the Initializing cycle recorded.
InitRecorded == PairsOf(init_releases)

\* The release whose send_notification returned True most recently.
Delivered(p) ==
    /\ notified = "True"
    /\ k > 1
    /\ PairOf(all_new_releases[k - 1]) = p

\* ------------------------------------------------------------------ claims

\* C1  Cold-start suppression: a release the Initializing cycle recorded for a
\* repository is, in every later Polling cycle, not reported as new (so it is
\* never handed to analyze_release) and no send_notification is made for it.
C1_ColdStartSuppression ==
    Phase = "poll" =>
        /\ PairsOf(all_new_releases) \cap InitRecorded = {}
        /\ last.phase = "poll" => PairsOf(last.new) \cap InitRecorded = {}
        /\ \A p \in InitRecorded : attempts[p] = 0

\* C1 witness: a Polling cycle fetched, for a repository, exactly the
\* releases Initializing recorded for it, and ended with nothing new.
C1_Witness ==
    /\ status = "running"
    /\ pc = "sleeping"
    /\ last.phase = "poll"
    /\ last.fetched # <<>>
    /\ {<<last.repo, i>> : i \in IdsOf(last.fetched)}
         = {p \in InitRecorded : p[1] = last.repo}
    /\ all_new_releases = <<>>

\* C2  Dedup idempotence: when check_for_new_releases is called for the
\* repository of the previous call with the fetched list of the previous call,
\* it returns the empty list and leaves the release sequence as it is.
C2_DedupIdempotence ==
    [][(/\ CheckStep
        /\ last.repo = repositories[idx]
        /\ last'.fetched = last.fetched)
       => /\ last'.new = <<>>
          /\ ReleasesIn(history', last.repo) = ReleasesIn(history, last.repo)]_vars

\* C2 witness: the list was configured twice; the first call returned every
\* release of the list as new, the second call with the same list nothing.
C2_Witness ==
    /\ pc = "init_save"
    /\ Len(repositories) = 2
    /\ repositories[1] = repositories[2]
    /\ last.fetched # <<>>
    /\ last.new = <<>>
    /\ ItemIdSeq(all_new_releases) = IdSeq(last.fetched)

\* C3  At-least-once delivery: a release discovered as new in a Polling cycle
\* is, as long as the process runs, eventually delivered successfully or at
\* least attempted again.
C3_AtLeastOnce ==
    \A p \in Pairs :
        (Phase = "poll" /\ p \in PairsOf(all_new_releases))
            ~> (Delivered(p) \/ attempts[p] >= 2 \/ status # "running")

\* C4  Per-release failure isolation: a failure in the pipeline of release
\* k never leaves a later release of the cycle without its steps, that is, the
\* pipeline is only ever abandoned at the last release.
C4_FailureIsolation ==
    (status = "crashed" /\ pc \in {"analyze", "notify"})
        => k = Len(all_new_releases)

\* C5  Per-repository fetch isolation: when a Polling cycle in which the
\* fetch of the last visited repository failed is over, every new release of
\* the other repositories fetched in it is in the release sequence of its
\* repository and has had its enrichment and its notification attempt.
C5_FetchIsolation ==
    (/\ Phase = "poll"
     /\ last.phase = "poll"
     /\ last.failed
     /\ \/ status = "running" /\ pc = "sleeping"
        \/ status = "crashed")
    => \A j \in 1..Len(all_new_releases) :
          all_new_releases[j][1] # last.repo =>
              /\ all_new_releases[j][2].id \in KnownSet(history, all_new_releases[j][1])
              /\ j < k

\* C6  No terminal state but cancellation: no failure during a Polling phase
\* ends the loop.
C6_NoTerminalState ==
    ~(status = "crashed" /\ pc \in {"poll_check", "analyze", "notify"})

\* C7  Monotonic known set: no step of the process removes an identifier from
\* the known set of a repository.
C7_MonotonicKnownSet ==
    [][\A r \in Repos : KnownSet(history, r) \subseteq KnownSet(history', r)]_vars

\* C7 witness: a Polling fetch failed, or left out a known release, for a
\* repository that has known releases.
C7_Witness ==
    /\ last.phase = "poll"
    /\ KnownSet(history, last.repo) # {}
    /\ ~(KnownSet(history, last.repo) \subseteq IdsOf(last.fetched))

\* C8  Never re-reported: at most one send_notification per (repository,
\* identifier).
C8_NeverReReported ==
    \A p \in Pairs : attempts[p] <= 1

\* C8 witness: a release that was notified came back in the fetch of a later
\* call and the cycle ended with nothing new.
C8_Witness ==
    /\ status = "running"
    /\ pc = "sleeping"
    /\ all_new_releases = <<>>
    /\ last.phase = "poll"
    /\ \E i \in IdsOf(last.fetched) : attempts[<<last.repo, i>>] = 1

\* C9  Order preservation: check_for_new_releases returns the releases of the
\* fetched list whose ids are absent from the known set, in the order of the
\* fetched list, and appends them to the release sequence in that order.
C9_OrderPreservation ==
    [][CheckStep =>
         LET r      == repositories[idx]
             absent == SelectSeq(last'.fetched,
                                 LAMBDA rd : rd.id \notin KnownSet(history, r))
         IN  /\ ItemIdSeq(last'.new) = IdSeq(absent)
             /\ \A j \in 1..Len(last'.new) : last'.new[j][1] = r
             /\ IdSeq(ReleasesIn(history', r))
                  = IdSeq(ReleasesIn(history, r)) \o IdSeq(absent)]_vars

\* C9 witness: the fetched list held the larger id first and a call returned
\* its releases as new in that order; they are the tail of the release sequence.
C9_Witness ==
    /\ Len(last.new) >= 2
    /\ last.fetched[1].id > last.fetched[2].id
    /\ ItemIdSeq(last.new) = IdSeq(last.fetched)
    /\ SubSeq(IdSeq(ReleasesIn(history, last.repo)),
              Len(ReleasesIn(history, last.repo)) - 1,
              Len(ReleasesIn(history, last.repo))) = ItemIdSeq(last.new)


\* C10  Cold-start rule for pre-existing releases: no send_notification is
\* ever made for a release the source held while Initializing ran.
C10_PreexistingNeverNotified ==
    \A r \in DOMAIN preexisting : \A i \in preexisting[r] : attempts[<<r, i>>] = 0

C12_LastCheckAlwaysUpdated ==
    [][(CheckStep /\ _get_repo_index(history, repositories[idx]) # -1)
          => history'[_get_repo_index(history, repositories[idx]) + 1].latest_check
                 = "current"]_vars

\* C13  Load never fails: when the process has just been constructed over a
\* history file that is missing, is not valid JSON or does not match the
\* schema, _load_history has returned the empty store without raising, and
\* the process stands at the start of Initializing.
C13_LoadNeverFails ==
    last = NoCall =>
        /\ status # "crashed"
        /\ pc = "init_check"
        /\ idx = 1
        /\ file.status \in {"missing", "corrupt", "mismatch"} => history = ReleaseHistory

\* C13 witness: the process runs, about to make its first check, over a
\* file whose JSON does not match the schema, with an empty store.
C13_Witness ==
    /\ last = NoCall
    /\ status = "running"
    /\ pc = "init_check"
    /\ file.status = "mismatch"
    /\ file.data # <<>>
    /\ history = ReleaseHistory

\* C14  At most one entry per key: the store of a process that started from
\* the empty store never holds two entries with the same (owner, repo), and
\* on every store reached a second _ensure_repo_exists for a key returns the
\* index of the first and adds no entry.
C14_OneEntryPerKey ==
    /\ \A i, j \in 1..Len(history) :
           history[i].owner_repo = history[j].owner_repo => i = j
    /\ \A r \in Repos :
           LET first  == _ensure_repo_exists(history, r)
               second == _ensure_repo_exists(first.history, r)
           IN  /\ second.index = first.index
               /\ second.history = first.history
               /\ first.history[first.index + 1].owner_repo = r

\* C14 witness: the same repository is configured twice, Initializing and a
\* Polling cycle have visited both positions with a non-empty fetch at the
\* last, and the store holds one entry.
C14_Witness ==
    /\ status = "running"
    /\ pc = "sleeping"
    /\ Len(repositories) = 2
    /\ repositories[1] = repositories[2]
    /\ last.phase = "poll"
    /\ last.fetched # <<>>
    /\ Len(history) = 1
    /\ history[1].owner_repo = repositories[1]

\* C15  A Polling cycle that ran to its sleep (nothing raised out of the
\* loop): as many analyze_release calls and as many send_notification calls
\* were made as releases were appended to the store in the cycle, these are
\* the releases of new_releases, the analyze_release call of each came before
\* its send_notification call, each is in the known set of its repository,
\* and the file holds the release sequences of the store when the cycle
\* appended anything.
C15_CycleAccounting ==
    (status = "running" /\ pc = "sleeping") =>
        /\ Len(Calls("analyze_release")) = cycle.discovered
        /\ Len(Calls("send_notification")) = cycle.discovered
        /\ Len(all_new_releases) = cycle.discovered
        /\ \A j \in 1..Len(all_new_releases) :
              LET p == PairOf(all_new_releases[j]) IN
              /\ \E a, b \in 1..Len(cycle.calls) :
                    /\ a < b
                    /\ cycle.calls[a] = <<"analyze_release", p>>
                    /\ cycle.calls[b] = <<"send_notification", p>>
              /\ p[2] \in KnownSet(history, p[1])
        /\ cycle.discovered > 0 =>
              /\ file.status = "ok"
              /\ \A r \in Repos : ReleasesIn(file.data, r) = ReleasesIn(history, r)

\* C15 witness: a Polling cycle in which no fetch failed and every
\* notification was sent discovered two releases and reached its sleep.
C15_Witness ==
    /\ status = "running"
    /\ pc = "sleeping"
    /\ cycle.discovered = 2
    /\ Len(cycle.calls) = 4
    /\ ~last.failed
    /\ notified = "True"
    /\ \A p \in PairsOf(all_new_releases) : attempts[p] = 1

\* C16  Persisted state is current at every sleep: whenever the loop is at
\* its sleep, running or cancelled there, the file is a complete store whose
\* known set equals the known set in memory for every repository; and when
\* initialize() has returned, the file holds the whole store, whether or not
\* Initializing recorded a release.
C16_PersistedAtSleep ==
    /\ (pc = "sleeping" /\ status \in {"running", "stopped"}) =>
          /\ file.status = "ok"
          /\ \A r \in Repos : KnownSet(file.data, r) = KnownSet(history, r)
    /\ (pc = "poll_check" /\ idx = 1 /\ last.phase = "init") =>
          file = [status |-> "ok", data |-> history]

\* C16 witness: the loop was cancelled in the sleep of a Polling cycle that
\* had recorded a release, after an Initializing that recorded none.
C16_Witness ==
    /\ status = "stopped"
    /\ pc = "sleeping"
    /\ init_releases = <<>>
    /\ cycle.discovered > 0
    /\ file.status = "ok"
    /\ KnownSet(file.data, last.repo) # {}

\* C17  No duplicate identifiers are ever recorded: no release sequence of
\* the store holds two releases with the same id, whatever lists were
\* fetched, a list that names one id twice included.
C17_NoDuplicateIds ==
    \A n \in 1..Len(history) :
        \A a, b \in 1..Len(history[n].releases) :
            history[n].releases[a].id = history[n].releases[b].id => a = b

\* C18  Edited releases are invisible: a call of check_for_new_releases
\* leaves every stored release as it is and returns no release whose id was
\* known, whatever tag or name the fetch gives for it; when every fetched id
\* was known, the call returns nothing, writes no file, and changes nothing
\* in the store but the latest_check of the repository.
C18_EditedInvisible ==
    [][CheckStep =>
         LET r   == repositories[idx]
             old == ReleasesIn(history, r)
         IN  /\ SubSeq(ReleasesIn(history', r), 1, Len(old)) = old
             /\ \A j \in 1..Len(last'.new) :
                   last'.new[j][2].id \notin KnownSet(history, r)
             /\ (last'.fetched # <<>> /\ IdsOf(last'.fetched) \subseteq KnownSet(history, r))
                   => /\ last'.new = <<>>
                      /\ file' = file
                      /\ all_new_releases' = all_new_releases
                      /\ history' = [history EXCEPT
                                        ![_get_repo_index(history, r) + 1].latest_check = "current"]]_vars

\* C18 witness: a Polling call fetched a known release under another tag
\* than the stored one, returned nothing, and the stored release has its
\* old tag.
C18_Witness ==
    /\ last.phase = "poll"
    /\ last.new = <<>>
    /\ Len(last.fetched) = 1
    /\ \E a \in 1..Len(ReleasesIn(history, last.repo)) :
          /\ ReleasesIn(history, last.repo)[a].id = last.fetched[1].id
          /\ ReleasesIn(history, last.repo)[a].tag_name # last.fetched[1].tag_name

\* C19  Crash-safe save: when the process ends inside _save_history while a
\* complete file exists, the file afterwards is that previous version or
\* the complete new store (so that the next _load_history does not fall
\* back to the empty store).
C19_CrashSafeSave ==
    [][(status = "running" /\ status' = "crashed" /\ file.status = "ok")
          => \/ file' = file
             \/ file' = [status |-> "ok", data |-> history']]_vars

\* C20  Record-then-notify ordering: once a Polling cycle is at its pipeline
\* (an analyze_release or send_notification call is due or was made), every
\* configured repository has been checked, new_releases holds every release
\* the cycle appended to the store, each of them is in the known set in
\* memory and in the known set of the complete file on disk, and every
\* pipeline call made was for one of them.
C20_RecordThenNotify ==
    (pc \in {"analyze", "notify"} \/ cycle.calls # <<>>) =>
        /\ Phase = "poll"
        /\ idx = Len(repositories)
        /\ Len(all_new_releases) = cycle.discovered
        /\ file.status = "ok"
        /\ \A p \in PairsOf(all_new_releases) :
              /\ p[2] \in KnownSet(history, p[1])
              /\ p[2] \in KnownSet(file.data, p[1])
        /\ \A c \in 1..Len(cycle.calls) : cycle.calls[c][2] \in PairsOf(all_new_releases)

\* C20 witness: a Polling cycle over two different repositories found a new
\* release in each; the first has been analysed and notified and the
\* send_notification of the second is due.
C20_Witness ==
    /\ status = "running"
    /\ pc = "notify"
    /\ k = 2
    /\ Len(all_new_releases) = 2
    /\ all_new_releases[1][1] # all_new_releases[2][1]
    /\ Len(cycle.calls) = 3

====
